---- MODULE Spec2Model ----
(***************************************************************************)
(* File-Cross-Check: the Express server (server.js) and its page (app.js). *)
(*                                                                         *)
(* A request uploads two files (multer filters them and stores them in the *)
(* uploads directory), then a handler runs to completion: /get-headers     *)
(* answers with the candidate keys; one of the two /cross-check handlers   *)
(* of server.js ingests both files (readFileContent), resolves the         *)
(* comparison key, builds the lookup set of File B, partitions File A's    *)
(* records, writes the CSV artifacts with their expiry timers, deletes the *)
(* uploads and answers.  GET /download-csv streams an artifact and the     *)
(* timers delete it.  The page fills its dropdown from /get-headers and    *)
(* submits the selected column.                                            *)
(*                                                                         *)
(* Specifications: Spec (one /cross-check request), SpecServer (requests   *)
(* of any shape to the three POST handlers), SpecRace (two requests at     *)
(* once), SpecArtifacts and SpecArtifactsLive (downloads and timers),      *)
(* SpecSample (files with more records than an answer carries inline),     *)
(* SpecClient (the page).                                                  *)
(*                                                                         *)
(* JavaScript strings are sequences of one-character strings, so that      *)
(* trim(), String() and the upload filter's pattern are computed and not   *)
(* looked up.  A JavaScript value is a record [t, s, n]: t is its type, s  *)
(* its text when it is a string, n its magnitude when it is a number.      *)
(***************************************************************************)
EXTENDS Integers, Sequences, FiniteSets, TLC

VARIABLES
    pc,              \* "idle", "uploaded", "rejected", "done", "unanswered"
    req,             \* the request as multer hands it to the handler
    uploads,         \* uploads directory: path -> file content
    artifacts,       \* temp_csv directory: filename -> what saveCsvFile wrote
    timers,          \* pending setTimeout cleanups: {[file, due]}
    now,             \* Date.now()
    served,          \* "none" | "main" | "legacy": the handler that answered
    resp,            \* the JSON response (status included)
    fileAContent,    \* handler local: readFileContent of File A
    fileBContent,    \* handler local: readFileContent of File B
    values2Set,      \* handler local: lookup set built from File B
    foundInFile2,    \* handler local: the matched partition
    missingInFile2,  \* handler local: the missing partition
    rival,           \* a second /cross-check request, on its own way
    log,             \* answered /cross-check requests: what was sent, what came
    gets,            \* GET /download-csv requests: id -> [file, status]
    fired,           \* names of the artifacts whose expiry timer has run
    page,            \* the client: file inputs, dropdown, button (app.js)
    inflight,        \* answers to /get-headers on their way to the client
    submitted        \* the selectedColumn values the client has submitted

serverVars == <<pc, req, uploads, artifacts, timers, now, served, resp,
                fileAContent, fileBContent, values2Set, foundInFile2,
                missingInFile2, rival, log, gets, fired>>

clientVars == <<page, inflight, submitted>>

vars == <<serverVars, clientVars>>

----------------------------------------------------------------------------
(* JavaScript values and strings *)

Undef == [t |-> "undefined", s |-> <<>>, n |-> 0]

Null == [t |-> "null", s |-> <<>>, n |-> 0]

S(str) == [t |-> "string", s |-> str, n |-> 0]

N(k) == [t |-> "number", s |-> <<>>, n |-> k]

sId == <<"i", "d">>

sName == <<"n", "a", "m", "e">>

sZzz == <<"z", "z", "z">>

sLineContent == <<"L", "i", "n", "e", " ", "C", "o", "n", "t", "e", "n", "t">>

sLegacyLineKey == <<"l", "i", "n", "e", "_", "c", "o", "n", "t", "e", "n", "t">>

DigitChar(d) == <<"0", "1", "2", "3", "4", "5", "6", "7", "8", "9">>[d + 1]

RECURSIVE NumToStr(_)
NumToStr(k) ==
    IF k < 10 THEN <<DigitChar(k)>>
    ELSE NumToStr(k \div 10) \o <<DigitChar(k % 10)>>

\* String(v)
String(v) ==
    CASE v.t = "string" -> v.s
      [] v.t = "number" -> NumToStr(v.n)
      [] v.t = "null" -> <<"n", "u", "l", "l">>
      [] OTHER -> <<"u", "n", "d", "e", "f", "i", "n", "e", "d">>

\* JavaScript truthiness of a value (for h || "" and !comparisonColumn)
Truthy(v) ==
    \/ v.t = "string" /\ v.s # <<>>
    \/ v.t = "number" /\ v.n # 0

IsSpace(c) == c \in {" ", "\t", "\n", "\r"}

RECURSIVE TrimStart(_)
TrimStart(str) ==
    IF str # <<>> /\ IsSpace(Head(str)) THEN TrimStart(Tail(str)) ELSE str

RECURSIVE TrimEnd(_)
TrimEnd(str) ==
    IF str # <<>> /\ IsSpace(str[Len(str)])
    THEN TrimEnd(SubSeq(str, 1, Len(str) - 1))
    ELSE str

\* String.prototype.trim
Trim(str) == TrimEnd(TrimStart(str))

\* array[index] with a 0-based index: undefined beyond the end or at a hole
At(arr, index) == IF index + 1 \in DOMAIN arr THEN arr[index + 1] ELSE Undef

\* obj[key]: undefined when the object has no such property
Prop(obj, key) == IF key \in DOMAIN obj THEN obj[key] ELSE Undef

\* the object obj after obj[key] = value
SetProp(obj, key, value) ==
    [k \in DOMAIN obj \cup {key} |-> IF k = key THEN value ELSE obj[k]]

EmptyObj == [k \in {} |-> Undef]

Min(a, b) == IF a < b THEN a ELSE b

----------------------------------------------------------------------------
(* Ingestion: readFileContent *)

eCsv == <<".", "c", "s", "v">>

eTxt == <<".", "t", "x", "t">>

eXlsx == <<".", "x", "l", "s", "x">>

eXls == <<".", "x", "l", "s">>

\* XLSX.utils.sheet_to_json(worksheet, {header: 1, raw}): one array per row,
\* a blank cell is a hole, an error cell #NULL! is null; with raw: false every
\* other cell is its formatted text, with raw: true it keeps its type.
SheetToJson(sheet, raw) ==
    [i \in DOMAIN sheet |->
        [j \in DOMAIN sheet[i] |->
            IF ~raw /\ sheet[i][j].t = "number"
            THEN S(NumToStr(sheet[i][j].n))
            ELSE sheet[i][j]]]

\* toLowerCase() of the letters an extension of the model is written in
LowerChar(c) ==
    CASE c = "C" -> "c" [] c = "S" -> "s" [] c = "V" -> "v"
      [] c = "X" -> "x" [] c = "L" -> "l" [] c = "T" -> "t"
      [] OTHER -> c

ToLowerCase(str) == [i \in DOMAIN str |-> LowerChar(str[i])]

\* ext === ".xlsx" || ext === ".xls" || ext === ".csv", ext in lower case
isStructured(ext) == ext = eXlsx \/ ext = eXls \/ ext = eCsv

\* rawData[0].map((h) => String(h || "").trim())
HeaderText(h) == Trim(String(IF Truthy(h) THEN h ELSE S(<<>>)))

\* headers.forEach((header, index) => obj[header] = row[index]), from index on
RECURSIVE RowObject(_, _, _, _)
RowObject(headers, row, index, obj) ==
    IF index >= Len(headers) THEN obj
    ELSE RowObject(headers, row, index + 1,
                   SetProp(obj, headers[index + 1], At(row, index)))

\* lines.filter((line) => line.trim() !== "")
NonBlankLines(lines) == SelectSeq(lines, LAMBDA line : Trim(line) # <<>>)

readFileContent(file) ==
    IF isStructured(ToLowerCase(file.ext))
    THEN LET rawData == SheetToJson(file.sheet, FALSE) IN
         IF Len(rawData) = 0
         THEN [data |-> <<>>, type |-> "structured", headers |-> <<>>,
               firstColumnHeader |-> Null]
         ELSE LET mapped == [j \in DOMAIN rawData[1] |-> HeaderText(rawData[1][j])]
                  headers == SelectSeq(mapped, LAMBDA h : h # <<>>)
                  rows == [i \in 1..(Len(rawData) - 1) |->
                              RowObject(headers, rawData[i + 1], 0, EmptyObj)]
              IN [data |-> rows, type |-> "structured", headers |-> headers,
                  firstColumnHeader |->
                      IF Len(headers) > 0 THEN S(headers[1]) ELSE Null]
    ELSE [data |-> NonBlankLines(file.lines), type |-> "plain_text",
          headers |-> <<>>, firstColumnHeader |-> S(sLineContent)]

\* legacy headers.forEach: a hole of the header row is skipped, the header
\* cell is used as a property key, i.e. through String()
RECURSIVE RowObjectLegacy(_, _, _, _)
RowObjectLegacy(headers, row, index, obj) ==
    IF index >= Len(headers) THEN obj
    ELSE RowObjectLegacy(headers, row, index + 1,
            IF headers[index + 1].t = "undefined" THEN obj
            ELSE SetProp(obj, String(headers[index + 1]), At(row, index)))

readFileContentLegacy(file) ==
    IF isStructured(ToLowerCase(file.ext))
    THEN LET json == SheetToJson(file.sheet, TRUE) IN
         IF Len(json) = 0
         THEN [data |-> <<>>, type |-> "structured", comparisonKey |-> Null]
         ELSE LET headers == json[1]
                  rows == [i \in 1..(Len(json) - 1) |->
                              RowObjectLegacy(headers, json[i + 1], 0, EmptyObj)]
              IN [data |-> rows, type |-> "structured",
                  comparisonKey |->
                      IF Len(headers) > 0 THEN headers[1] ELSE Null]
    ELSE [data |-> NonBlankLines(file.lines), type |-> "plain_text",
          comparisonKey |-> S(sLegacyLineKey)]

----------------------------------------------------------------------------
(* The /cross-check handler with header negotiation (server.js 274-502) *)

CleanupDelayMs == 300000

SampleSize == 10

Range(seq) == {seq[i] : i \in DOMAIN seq}

NoFile == [kind |-> "null", ts |-> 0]

\* value !== undefined && value !== null && value !== ""
NonEmpty(value) ==
    /\ value.t # "undefined"
    /\ value.t # "null"
    /\ ~(value.t = "string" /\ value.s = <<>>)

\* the value a record is compared by: row[actualComparisonColumn] of a
\* structured record, the line itself of a plain-text record
ValueOf(item, type, key) ==
    IF type = "structured" THEN Prop(item, key) ELSE S(item)

\* ResolveKey validating the key against File B's columns instead of File A's
ResolveKeyChecksFileB(contentA, contentB, selectedColumn) ==
    IF contentA.type = "structured" /\ contentB.type = "structured"
    THEN [ok |-> selectedColumn \in Range(contentB.headers),
          key |-> selectedColumn]
    ELSE [ok |-> TRUE, key |-> sLineContent]

\* ResolveKey requiring the key among the columns of both files
ResolveKeyNeedsBothFiles(contentA, contentB, selectedColumn) ==
    IF contentA.type = "structured" /\ contentB.type = "structured"
    THEN [ok |-> /\ selectedColumn \in Range(contentA.headers)
                 /\ selectedColumn \in Range(contentB.headers),
          key |-> selectedColumn]
    ELSE [ok |-> TRUE, key |-> sLineContent]

\* key resolution: [ok, key]
ResolveKey(contentA, contentB, selectedColumn) ==
    IF contentA.type = "structured" /\ contentB.type = "structured"
    THEN [ok |-> selectedColumn \in Range(contentA.headers),
          key |-> selectedColumn]
    ELSE [ok |-> TRUE, key |-> sLineContent]

\* LookupAdd without the value !== "" test
LookupAddKeepsEmpty(set, value) ==
    IF value.t # "undefined" /\ value.t # "null"
    THEN set \cup {S(String(value))} ELSE set

\* one iteration of data2.forEach: values2Set.add(String(value)); the set
\* holds JavaScript strings
LookupAdd(set, value) ==
    IF NonEmpty(value) THEN set \cup {S(String(value))} ELSE set

RECURSIVE BuildLookup(_, _, _, _, _)
BuildLookup(data2, file2Type, key, i, set) ==
    IF i > Len(data2) THEN set
    ELSE BuildLookup(data2, file2Type, key, i + 1,
                     LookupAdd(set, ValueOf(data2[i], file2Type, key)))

\* PartitionStep without the final else branch: a record with an empty key
\* value goes to neither partition
PartitionStepDropsEmpty(acc, item1, value1, set) ==
    IF NonEmpty(value1)
    THEN IF S(String(value1)) \in set
         THEN [acc EXCEPT !.found = Append(@, item1)]
         ELSE [acc EXCEPT !.missing = Append(@, item1)]
    ELSE acc

\* PartitionStep with the membership test inverted
PartitionStepInverted(acc, item1, value1, set) ==
    IF NonEmpty(value1)
    THEN IF S(String(value1)) \notin set
         THEN [acc EXCEPT !.found = Append(@, item1)]
         ELSE [acc EXCEPT !.missing = Append(@, item1)]
    ELSE [acc EXCEPT !.missing = Append(@, item1)]

\* PartitionStep with unshift in place of push
PartitionStepPrepends(acc, item1, value1, set) ==
    IF NonEmpty(value1)
    THEN IF S(String(value1)) \in set
         THEN [acc EXCEPT !.found = <<item1>> \o @]
         ELSE [acc EXCEPT !.missing = <<item1>> \o @]
    ELSE [acc EXCEPT !.missing = <<item1>> \o @]

\* one iteration of for (const item1 of data1)
PartitionStep(acc, item1, value1, set) ==
    IF NonEmpty(value1)
    THEN IF S(String(value1)) \in set
         THEN [acc EXCEPT !.found = Append(@, item1)]
         ELSE [acc EXCEPT !.missing = Append(@, item1)]
    ELSE [acc EXCEPT !.missing = Append(@, item1)]

RECURSIVE Partition(_, _, _, _, _, _)
Partition(data1, file1Type, key, set, i, acc) ==
    IF i > Len(data1) THEN acc
    ELSE Partition(data1, file1Type, key, set, i + 1,
                   PartitionStep(acc, data1[i],
                                 ValueOf(data1[i], file1Type, key), set))

\* UnknownKeyResponse shaped like the answers for an empty file
UnknownKeyResponseWithCounts(key) ==
    [status |-> 400, success |-> FALSE,
     message |-> "Selected column not found in File A headers",
     selectedColumn |-> key,
     foundCount |-> 0, missingCount |-> 0, missingContents |-> <<>>]

UnknownKeyResponse(key) ==
    [status |-> 400, success |-> FALSE,
     message |-> "Selected column not found in File A headers",
     selectedColumn |-> key]

EmptyAResponse(key) ==
    [status |-> 200, success |-> TRUE,
     message |-> "File A is empty. Nothing to cross-check.",
     foundCount |-> 0, missingCount |-> 0, missingContents |-> <<>>,
     totalFile1Rows |-> 0, comparisonColumn |-> key]

\* EmptyBResponse reporting every record of File A as missing
EmptyBResponseAllMissing(data1, key) ==
    [status |-> 200, success |-> TRUE,
     message |-> "File B is empty. No contents to compare against.",
     foundCount |-> 0, missingCount |-> Len(data1),
     missingContents |-> SubSeq(data1, 1, Min(SampleSize, Len(data1))),
     totalFile1Rows |-> Len(data1), comparisonColumn |-> key]

EmptyBResponse(data1, key) ==
    [status |-> 200, success |-> TRUE,
     message |-> "File B is empty. No contents to compare against.",
     foundCount |-> 0, missingCount |-> 0, missingContents |-> <<>>,
     totalFile1Rows |-> Len(data1), comparisonColumn |-> key]

\* what JSON.stringify writes for a record: a property whose value is
\* undefined is left out, null stays null; a line of text stays as it is
JsonOf(item, dataType) ==
    IF dataType = "structured"
    THEN [k \in {h \in DOMAIN item : item[h].t # "undefined"} |-> item[k]]
    ELSE item

\* Sample without the limit: the whole partition
SampleUncapped(missing, dataType) ==
    [i \in 1..Len(missing) |-> JsonOf(missing[i], dataType)]

\* missingInFile2.slice(0, 10), as res.json sends it
Sample(missing, dataType) ==
    [i \in 1..Min(SampleSize, Len(missing)) |-> JsonOf(missing[i], dataType)]

SuccessResponse(data1, found, missing, matchedName, missingName, key, file1Type) ==
    [status |-> 200, success |-> TRUE,
     message |-> "Cross-check completed successfully! CSV files generated.",
     foundCount |-> Len(found), missingCount |-> Len(missing),
     totalFile1Rows |-> Len(data1),
     missingContents |-> Sample(missing, file1Type),
     matchedCsvFilename |-> IF Len(found) > 0 THEN matchedName ELSE NoFile,
     missingCsvFilename |-> IF Len(missing) > 0 THEN missingName ELSE NoFile,
     comparisonColumn |-> key]

\* the text of a cell in the CSV: a number is written in digits, a cell
\* without a value (undefined, null) is blank
CsvCell(value) == IF NonEmpty(value) THEN String(value) ELSE <<>>

\* XLSX.utils.json_to_sheet(data): one column for every key of a record
JsonToSheet(data) ==
    LET columns == UNION {DOMAIN data[i] : i \in DOMAIN data}
    IN [columns |-> columns,
        rows |-> [i \in DOMAIN data |->
                     [k \in columns |-> CsvCell(Prop(data[i], k))]]]

\* XLSX.utils.aoa_to_sheet([["Line Content"], ...data.map((line) => [line])])
AoaToSheet(data) ==
    [columns |-> {sLineContent},
     rows |-> [i \in DOMAIN data |-> [k \in {sLineContent} |-> data[i]]]]

\* what saveCsvFile(data, filename, dataType) leaves in temp_csv: the CSV
\* text, as its columns and its lines after the header line
saveCsvFile(dir, data, filename, dataType) ==
    SetProp(dir, filename,
            IF dataType = "structured" THEN JsonToSheet(data)
            ELSE AoaToSheet(data))

\* WriteArtifacts with the two file names exchanged
WriteArtifactsSwapped(dir, found, missing, matchedName, missingName, file1Type) ==
    LET d1 == IF Len(found) > 0
              THEN saveCsvFile(dir, found, missingName, file1Type) ELSE dir
    IN IF Len(missing) > 0
       THEN saveCsvFile(d1, missing, matchedName, file1Type) ELSE d1

\* the artifacts written and the timers set for the two partitions
WriteArtifacts(dir, found, missing, matchedName, missingName, file1Type) ==
    LET d1 == IF Len(found) > 0
              THEN saveCsvFile(dir, found, matchedName, file1Type) ELSE dir
    IN IF Len(missing) > 0
       THEN saveCsvFile(d1, missing, missingName, file1Type) ELSE d1

ScheduleCleanups(found, missing, matchedName, missingName, clock) ==
    (IF Len(found) > 0
     THEN {[file |-> matchedName, due |-> clock + CleanupDelayMs]} ELSE {})
    \cup
    (IF Len(missing) > 0
     THEN {[file |-> missingName, due |-> clock + CleanupDelayMs]} ELSE {})

\* fs.unlinkSync of both uploads
RemoveFiles(dir, paths) == [p \in DOMAIN dir \ paths |-> dir[p]]

NoPartition == [found |-> <<>>, missing |-> <<>>]

\* the outcome of the handler body for two stored files
CrossCheckOutcome(fileA, fileB, selectedColumn, dir, clock) ==
    LET contentA == readFileContent(fileA)
        contentB == readFileContent(fileB)
        data1 == contentA.data
        data2 == contentB.data
        file1Type == contentA.type
        file2Type == contentB.type
        rk == ResolveKey(contentA, contentB, selectedColumn)
        set == BuildLookup(data2, file2Type, rk.key, 1, {})
        part == Partition(data1, file1Type, rk.key, set, 1, NoPartition)
        matchedName == [kind |-> "matched_contents", ts |-> clock]
        missingName == [kind |-> "missing_contents", ts |-> clock]
        quiet == [a |-> contentA, b |-> contentB, set |-> {},
                  part |-> NoPartition, dir |-> dir, timers |-> {}]
    IN  IF ~rk.ok
        THEN [resp |-> UnknownKeyResponse(S(selectedColumn))] @@ quiet
        ELSE IF Len(data1) = 0
        THEN [resp |-> EmptyAResponse(S(rk.key))] @@ quiet
        ELSE IF Len(data2) = 0
        THEN [resp |-> EmptyBResponse(data1, S(rk.key))] @@ quiet
        ELSE [resp |-> SuccessResponse(data1, part.found, part.missing,
                                       matchedName, missingName, S(rk.key),
                                       file1Type),
              a |-> contentA, b |-> contentB, set |-> set, part |-> part,
              dir |-> WriteArtifacts(dir, part.found, part.missing,
                                     matchedName, missingName, file1Type),
              timers |-> ScheduleCleanups(part.found, part.missing,
                                          matchedName, missingName, clock)]

----------------------------------------------------------------------------
(* The /cross-check handler without header negotiation (server.js 702-885) *)

\* row[comparisonColumn]: the key is File A's first header cell, used as a
\* property name
LegacyValueOf(item, type, comparisonColumn) ==
    IF type = "structured" THEN Prop(item, String(comparisonColumn))
    ELSE S(item)

\* values2Set.add(value): the value itself, not its string form
LegacyLookupAdd(set, value) ==
    IF NonEmpty(value) THEN set \cup {value} ELSE set

RECURSIVE LegacyBuildLookup(_, _, _, _, _)
LegacyBuildLookup(data2, file2Type, key, i, set) ==
    IF i > Len(data2) THEN set
    ELSE LegacyBuildLookup(data2, file2Type, key, i + 1,
            LegacyLookupAdd(set, LegacyValueOf(data2[i], file2Type, key)))

\* values2Set.has(value1): Set membership is typed (SameValueZero)
LegacyPartitionStep(acc, item1, value1, set) ==
    IF NonEmpty(value1)
    THEN IF value1 \in set
         THEN [acc EXCEPT !.found = Append(@, item1)]
         ELSE [acc EXCEPT !.missing = Append(@, item1)]
    ELSE [acc EXCEPT !.missing = Append(@, item1)]

RECURSIVE LegacyPartition(_, _, _, _, _, _)
LegacyPartition(data1, file1Type, key, set, i, acc) ==
    IF i > Len(data1) THEN acc
    ELSE LegacyPartition(data1, file1Type, key, set, i + 1,
            LegacyPartitionStep(acc, data1[i],
                                LegacyValueOf(data1[i], file1Type, key), set))

LegacyEmptyAResponse ==
    [status |-> 200, success |-> TRUE,
     message |-> "File A is empty. Nothing to cross-check.",
     foundCount |-> 0, missingCount |-> 0, missingContents |-> <<>>]

LegacyEmptyBResponse ==
    [status |-> 200, success |-> TRUE,
     message |-> "File B is empty. No contents to compare against.",
     foundCount |-> 0, missingCount |-> 0, missingContents |-> <<>>]

LegacyNoKeyResponse ==
    [status |-> 400, success |-> FALSE,
     message |-> "Could not determine a comparison key for File A."]

LegacyCrossCheckOutcome(fileA, fileB, dir, clock) ==
    LET contentA == readFileContentLegacy(fileA)
        contentB == readFileContentLegacy(fileB)
        data1 == contentA.data
        data2 == contentB.data
        file1Type == contentA.type
        file2Type == contentB.type
        comparisonColumn == contentA.comparisonKey
        set == LegacyBuildLookup(data2, file2Type, comparisonColumn, 1, {})
        part == LegacyPartition(data1, file1Type, comparisonColumn, set, 1,
                                NoPartition)
        matchedName == [kind |-> "matched_contents", ts |-> clock]
        missingName == [kind |-> "missing_contents", ts |-> clock]
        quiet == [a |-> contentA, b |-> contentB, set |-> {},
                  part |-> NoPartition, dir |-> dir, timers |-> {}]
    IN  IF Len(data1) = 0
        THEN [resp |-> LegacyEmptyAResponse] @@ quiet
        ELSE IF Len(data2) = 0
        THEN [resp |-> LegacyEmptyBResponse] @@ quiet
        ELSE IF ~Truthy(comparisonColumn)
        THEN [resp |-> LegacyNoKeyResponse] @@ quiet
        ELSE [resp |-> SuccessResponse(data1, part.found, part.missing,
                                       matchedName, missingName,
                                       comparisonColumn, file1Type),
              a |-> contentA, b |-> contentB, set |-> set, part |-> part,
              dir |-> WriteArtifacts(dir, part.found, part.missing,
                                     matchedName, missingName, file1Type),
              timers |-> ScheduleCleanups(part.found, part.missing,
                                          matchedName, missingName, clock)]

----------------------------------------------------------------------------
(* The files and keys a request is drawn from *)

MaxRowsA == 2

MaxRowsB == 1

SeqUpTo(set, k) == UNION {[1..m -> set] : m \in 0..k}

s5 == <<"5">>

sX == <<"x">>

\* cells of a data row: blank, #NULL!, empty text, text, number
Cells == {Undef, Null, S(<<>>), S(s5), N(5), S(sX)}

\* a row as sheet_to_json returns it ends at its last non-blank cell
DataRows == {<<>>} \cup {<<c>> : c \in Cells \ {Undef}}

HeaderRows == {<<S(sId)>>, <<S(sName)>>}

Sheets(maxRows) ==
    {<<>>} \cup {<<h>> \o d : h \in HeaderRows, d \in SeqUpTo(DataRows, maxRows)}

\* the lines content.split(/\r?\n/) returns
TextLines == {s5, sX, <<" ">>}

Csv(sheet) == [ext |-> eCsv, sheet |-> sheet, lines |-> <<>>]

Txt(lines) == [ext |-> eTxt, sheet |-> <<>>, lines |-> lines]

\* the two tables of the documented scenario, a header row with a blank cell
\* before the key, a padded header, a header row without any text
ScenarioA ==
    Csv(<<<<S(sId), S(sName)>>, <<S(<<"1">>), S(sX)>>, <<S(<<"2">>), S(<<"y">>)>>>>)

ScenarioB == Csv(<<<<S(sId), S(sName)>>, <<S(<<"2">>), S(<<"z">>)>>>>)

ScenarioTextA == Txt(<<<<"f", "o", "o">>, <<"b", "a", "r">>>>)

ScenarioTextB == Txt(<<<<"b", "a", "r">>>>)

ExtraSheets ==
    {<<<<Undef, S(sId)>>, <<S(sX), S(s5)>>>>,
     <<<<S(<<" ", "i", "d", " ">>), S(sName)>>, <<N(5), S(sX)>>>>,
     <<<<>>, <<S(s5)>>>>,
     <<<<S(sName), S(sId)>>, <<S(sX), N(5)>>, <<S(sX)>>>>}

FilesA ==
    {Csv(sh) : sh \in Sheets(MaxRowsA) \cup ExtraSheets}
    \cup {Txt(l) : l \in SeqUpTo(TextLines, MaxRowsA)}
    \cup {ScenarioA, ScenarioTextA}

FilesB ==
    {Csv(sh) : sh \in Sheets(MaxRowsB) \cup ExtraSheets}
    \cup {Txt(l) : l \in SeqUpTo(TextLines, MaxRowsB)}
    \cup {ScenarioB, ScenarioTextB}

Keys == {sId, sName, sZzz}

----------------------------------------------------------------------------
(* The page (app.js): what the dropdown shows *)

sSelectAColumn ==
    <<"S", "e", "l", "e", "c", "t", " ", "a", " ", "c", "o", "l", "u", "m",
      "n", ".", ".", ".">>

sUploadBoth ==
    <<"U", "p", "l", "o", "a", "d", " ", "b", "o", "t", "h", " ", "f", "i",
      "l", "e", "s", " ", "t", "o", " ", "l", "o", "a", "d", " ", "o", "p",
      "t", "i", "o", "n", "s", ".", ".", ".">>

sLoadingColumnHeaders ==
    <<"L", "o", "a", "d", "i", "n", "g", " ", "c", "o", "l", "u", "m", "n",
      " ", "h", "e", "a", "d", "e", "r", "s", ".", ".", ".">>

sNoHeadersOrEmpty ==
    <<"N", "o", " ", "h", "e", "a", "d", "e", "r", "s", " ", "f", "o", "u",
      "n", "d", " ", "o", "r", " ", "f", "i", "l", "e", "s", " ", "a", "r",
      "e", " ", "e", "m", "p", "t", "y", ".">>

sErrorLoading ==
    <<"E", "r", "r", "o", "r", " ", "l", "o", "a", "d", "i", "n", "g", " ",
      "h", "e", "a", "d", "e", "r", "s", ".">>

sLoadingHeaders ==
    <<"L", "o", "a", "d", "i", "n", "g", " ", "h", "e", "a", "d", "e", "r",
      "s", ".", ".", ".">>

\* new Option(text, value)
Option(text, value) == [text |-> text, value |-> value]

\* a file input without a file
NoChoice == [ext |-> <<>>, sheet |-> <<>>, lines |-> <<>>, absent |-> TRUE]

\* the page before any event: no file chosen; whether index.html delivers
\* the dropdown and the button disabled is given by the two arguments
PageLoaded(selectDisabled, crossCheckDisabled) ==
    [file1 |-> NoChoice, file2 |-> NoChoice,
     options |-> <<Option(sUploadBoth, <<>>)>>, value |-> <<>>,
     selectDisabled |-> selectDisabled,
     crossCheckDisabled |-> crossCheckDisabled,
     inputsDisabled |-> FALSE, checking |-> FALSE,
     event |-> "load", shownFor |-> <<NoChoice, NoChoice>>]

----------------------------------------------------------------------------
(* The request *)

NoResp == [status |-> 0, success |-> FALSE]

NoReq == [selectedColumn |-> <<>>]

NoContent == [data |-> <<>>, type |-> "none"]

\* the second request before it is sent
NoRival ==
    [pc |-> "idle", req |-> NoReq, resp |-> NoResp, foundInFile2 |-> <<>>,
     missingInFile2 |-> <<>>, runs |-> 0]

Init ==
    /\ pc = "idle"
    /\ req = NoReq
    /\ uploads = EmptyObj
    /\ artifacts = EmptyObj
    /\ timers = {}
    /\ now = 0
    /\ served = "none"
    /\ resp = NoResp
    /\ fileAContent = NoContent
    /\ fileBContent = NoContent
    /\ values2Set = {}
    /\ foundInFile2 = <<>>
    /\ missingInFile2 = <<>>
    /\ rival = NoRival
    /\ log = {}
    /\ gets = <<>>
    /\ fired = {}
    /\ page = PageLoaded(TRUE, TRUE)
    /\ inflight = {}
    /\ submitted = {}

\* multer: upload.fields stores both files under fieldname-Date.now()+ext
Upload ==
    /\ pc = "idle"
    /\ \E a \in FilesA, b \in FilesB, key \in Keys :
         LET pathA == [field |-> "fileA", ts |-> now, ext |-> a.ext]
             pathB == [field |-> "fileB", ts |-> now, ext |-> b.ext]
         IN /\ uploads' = SetProp(SetProp(uploads, pathA,
                                          [sheet |-> a.sheet, lines |-> a.lines]),
                                  pathB, [sheet |-> b.sheet, lines |-> b.lines])
            /\ req' = [fileA |-> [path |-> pathA, originalext |-> a.ext, sent |-> a],
                       fileB |-> [path |-> pathB, originalext |-> b.ext, sent |-> b],
                       selectedColumn |-> key]
    /\ pc' = "uploaded"
    /\ UNCHANGED <<artifacts, timers, now, served, resp, fileAContent,
                   fileBContent, values2Set, foundInFile2, missingInFile2>>
    /\ UNCHANGED <<rival, log, gets, fired>>
    /\ UNCHANGED clientVars

\* the file readFileContent(file.path, file.originalname) reads
Stored(f) ==
    [ext |-> f.originalext, sheet |-> uploads[f.path].sheet,
     lines |-> uploads[f.path].lines]

\* req.files["fileA"] and req.files["fileB"] are both there
BothSupplied(r) == "fileA" \in DOMAIN r /\ "fileB" \in DOMAIN r

\* the paths multer stored for the request
PathsOf(r) ==
    (IF "fileA" \in DOMAIN r THEN {r.fileA.path} ELSE {})
    \cup (IF "fileB" \in DOMAIN r THEN {r.fileB.path} ELSE {})

\* readFileContent returns: the file is on disk and XLSX.readFile parses it
CanRead(f) ==
    /\ f.path \in DOMAIN uploads
    /\ "corrupt" \notin DOMAIN uploads[f.path]

MissingFileResponse ==
    [status |-> 400, success |-> FALSE,
     message |-> "Please upload both File A and File B."]

ErrorResponse ==
    [status |-> 500, success |-> FALSE, message |-> "An error occurred"]

\* what a handler leaves when it computed nothing
Quiet(dir) ==
    [a |-> NoContent, b |-> NoContent, set |-> {}, part |-> NoPartition,
     dir |-> dir, timers |-> {}]

\* if (!fileA || !fileB) return res.status(400): the stored file stays
Refused(r, dir) ==
    [resp |-> MissingFileResponse, pc |-> "done", uploads |-> uploads]
    @@ Quiet(dir)

\* the catch block: unlinkSync of File A's upload, then of File B's, then
\* the 500 answer; unlinkSync throws on a path that is gone, and what is
\* thrown in the catch block leaves the request without an answer
Caught(r, dir) ==
    (IF r.fileA.path \notin DOMAIN uploads
     THEN [resp |-> NoResp, pc |-> "unanswered", uploads |-> uploads]
     ELSE IF r.fileB.path \notin DOMAIN uploads
     THEN [resp |-> NoResp, pc |-> "unanswered",
           uploads |-> RemoveFiles(uploads, {r.fileA.path})]
     ELSE [resp |-> ErrorResponse, pc |-> "done",
           uploads |-> RemoveFiles(uploads, {r.fileA.path, r.fileB.path})])
    @@ Quiet(dir)

\* the try block ran to its answer: both uploads are unlinked
Answered(r, out) ==
    out @@ [pc |-> "done",
            uploads |-> RemoveFiles(uploads, {r.fileA.path, r.fileB.path})]

\* the handler of the server with /get-headers, run on request r
Handled(r, dir, clock) ==
    IF ~BothSupplied(r) THEN Refused(r, dir)
    ELSE IF ~(CanRead(r.fileA) /\ CanRead(r.fileB)) THEN Caught(r, dir)
    ELSE Answered(r, CrossCheckOutcome(Stored(r.fileA), Stored(r.fileB),
                                       r.selectedColumn, dir, clock))

\* the handler of the server without /get-headers, run on request r
HandledLegacy(r, dir, clock) ==
    IF ~BothSupplied(r) THEN Refused(r, dir)
    ELSE IF ~(CanRead(r.fileA) /\ CanRead(r.fileB)) THEN Caught(r, dir)
    ELSE Answered(r, LegacyCrossCheckOutcome(Stored(r.fileA), Stored(r.fileB),
                                             dir, clock))

ReportedFields ==
    {"status", "success", "foundCount", "missingCount", "totalFile1Rows",
     "comparisonColumn"}

\* the counts and the key of an answer
Reported(answer) ==
    [k \in DOMAIN answer \cap ReportedFields |-> answer[k]]

\* the record of an answered /cross-check request: the files and the key it
\* sent, the partitions the handler built, the counts and the key it
\* answered, whether the files it read were the files sent
Logged(r, out, handler) ==
    IF out.pc = "done" /\ BothSupplied(r) /\ handler \in {"main", "legacy"}
    THEN {[sent |-> <<r.fileA.sent, r.fileB.sent, r.selectedColumn>>,
           handler |-> handler,
           found |-> out.part.found, missing |-> out.part.missing,
           answer |-> Reported(out.resp),
           intact |-> /\ CanRead(r.fileA) /\ CanRead(r.fileB)
                      /\ Stored(r.fileA) = r.fileA.sent
                      /\ Stored(r.fileB) = r.fileB.sent]}
    ELSE {}

Finish(out, handler) ==
    /\ resp' = out.resp
    /\ fileAContent' = out.a
    /\ fileBContent' = out.b
    /\ values2Set' = out.set
    /\ foundInFile2' = out.part.found
    /\ missingInFile2' = out.part.missing
    /\ artifacts' = out.dir
    /\ timers' = timers \cup out.timers
    /\ uploads' = out.uploads
    /\ served' = handler
    /\ pc' = out.pc
    /\ log' = log \cup Logged(req, out, handler)
    /\ UNCHANGED <<req, now, rival, gets, fired>>
    /\ UNCHANGED clientVars

\* app.post("/cross-check") of the server with /get-headers
CrossCheck ==
    /\ pc = "uploaded"
    /\ Finish(Handled(req, artifacts, now), "main")

\* app.post("/cross-check") of the server without /get-headers
CrossCheckLegacy ==
    /\ pc = "uploaded"
    /\ Finish(HandledLegacy(req, artifacts, now), "legacy")

----------------------------------------------------------------------------
(* POST /get-headers (server.js 201-271) *)

sNoHeadersFound == <<"N", "o", " ", "H", "e", "a", "d", "e", "r", "s", " ", "F", "o", "u", "n", "d">>

\* Array.from(new Set(arr)): the first occurrence of each element, in order
RECURSIVE Dedup(_, _)
Dedup(arr, seen) ==
    IF arr = <<>> THEN <<>>
    ELSE IF Head(arr) \in seen THEN Dedup(Tail(arr), seen)
    ELSE <<Head(arr)>> \o Dedup(Tail(arr), seen \cup {Head(arr)})

\* UniqueHeaders listing File B's columns before File A's
UniqueHeadersBFirst(contentA, contentB) ==
    IF contentA.type = "structured" /\ contentB.type = "structured"
    THEN LET set == Dedup(contentB.headers \o contentA.headers, {})
             kept == SelectSeq(set, LAMBDA h : h # <<>> /\ Trim(h) # <<>>)
         IN IF Len(kept) = 0 THEN <<sNoHeadersFound>> ELSE kept
    ELSE <<sLineContent>>

\* uniqueHeaders: the candidates /get-headers answers with
UniqueHeaders(contentA, contentB) ==
    IF contentA.type = "structured" /\ contentB.type = "structured"
    THEN LET set == Dedup(contentA.headers \o contentB.headers, {})
             kept == SelectSeq(set, LAMBDA h : h # <<>> /\ Trim(h) # <<>>)
         IN IF Len(kept) = 0 THEN <<sNoHeadersFound>> ELSE kept
    ELSE <<sLineContent>>

MissingFileHeadersResponse ==
    [status |-> 400, success |-> FALSE,
     message |-> "Please upload both files to get headers."]

HeadersResponse(contentA, contentB) ==
    [status |-> 200, success |-> TRUE,
     headers |-> UniqueHeaders(contentA, contentB),
     fileAType |-> contentA.type]

GetHeadersOutcome(fileA, fileB, dir) ==
    LET contentA == readFileContent(fileA)
        contentB == readFileContent(fileB)
    IN [resp |-> HeadersResponse(contentA, contentB),
        a |-> contentA, b |-> contentB, set |-> {}, part |-> NoPartition,
        dir |-> dir, timers |-> {}]

\* the /get-headers handler, run on request r
HandledHeaders(r, dir) ==
    IF ~BothSupplied(r)
    THEN [Refused(r, dir) EXCEPT !.resp = MissingFileHeadersResponse]
    ELSE IF ~(CanRead(r.fileA) /\ CanRead(r.fileB)) THEN Caught(r, dir)
    ELSE Answered(r, GetHeadersOutcome(Stored(r.fileA), Stored(r.fileB), dir))

\* app.post("/get-headers")
GetHeaders ==
    /\ pc = "uploaded"
    /\ Finish(HandledHeaders(req, artifacts), "headers")

----------------------------------------------------------------------------
(* multer: the upload filter and the storage (server.js 29-64) *)

\* the text contains the word
Contains(text, word) ==
    \E i \in 1..(Len(text) - Len(word) + 1) :
        SubSeq(text, i, i + Len(word) - 1) = word

\* fileFilter: /xlsx|xls|txt|csv/.test(path.extname(originalname).toLowerCase())
fileFilter(ext) ==
    \E word \in {<<"x", "l", "s", "x">>, <<"x", "l", "s">>,
                 <<"t", "x", "t">>, <<"c", "s", "v">>} :
        Contains(ToLowerCase(ext), word)

\* what multer writes to disk for an uploaded file
ContentOf(file) ==
    IF "corrupt" \in DOMAIN file
    THEN [sheet |-> file.sheet, lines |-> file.lines, corrupt |-> TRUE]
    ELSE [sheet |-> file.sheet, lines |-> file.lines]

\* diskStorage filename: fieldname + "-" + Date.now() + extname(originalname)
PathOf(field, clock, file) == [field |-> field, ts |-> clock, ext |-> file.ext]

\* req.files[field][0]
FileOf(field, clock, file) ==
    [path |-> PathOf(field, clock, file), originalext |-> file.ext,
     sent |-> file]

\* the request multer hands to the handler for the files sent; a file that
\* was not sent is Absent
Absent == [ext |-> <<>>, sheet |-> <<>>, lines |-> <<>>, absent |-> TRUE]

IsSent(file) == "absent" \notin DOMAIN file

RequestOf(a, b, key, clock) ==
    (IF IsSent(a) THEN [fileA |-> FileOf("fileA", clock, a)] ELSE <<>>)
    @@ (IF IsSent(b) THEN [fileB |-> FileOf("fileB", clock, b)] ELSE <<>>)
    @@ [selectedColumn |-> key]

\* the uploads directory after multer stored the files sent
StoredFiles(dir, a, b, clock) ==
    LET withA == IF IsSent(a)
                 THEN SetProp(dir, PathOf("fileA", clock, a), ContentOf(a))
                 ELSE dir
    IN IF IsSent(b)
       THEN SetProp(withA, PathOf("fileB", clock, b), ContentOf(b))
       ELSE withA

RejectedResponse ==
    [status |-> 500, success |-> FALSE,
     message |-> "Only Excel (.xlsx, .xls), Text (.txt), and CSV (.csv) files are allowed!"]

\* upload.fields: every file sent passes fileFilter and is stored, or the
\* request ends in multer's error and no handler runs
Receive(a, b, key) ==
    /\ pc = "idle"
    /\ IF \A f \in {a, b} : IsSent(f) => fileFilter(f.ext)
       THEN /\ uploads' = StoredFiles(uploads, a, b, now)
            /\ req' = RequestOf(a, b, key, now)
            /\ pc' = "uploaded"
            /\ resp' = resp
       ELSE /\ uploads' = uploads
            /\ req' = RequestOf(a, b, key, now)
            /\ pc' = "rejected"
            /\ resp' = RejectedResponse
    /\ UNCHANGED <<artifacts, timers, now, served, fileAContent,
                   fileBContent, values2Set, foundInFile2, missingInFile2>>
    /\ UNCHANGED <<rival, log, gets, fired>>
    /\ UNCHANGED clientVars

Next == Upload \/ CrossCheck \/ CrossCheckLegacy

Spec == Init /\ [][Next]_vars

----------------------------------------------------------------------------
(* Requests of any shape: a file missing, a workbook that cannot be read,  *)
(* header rows of every kind, original names with any extension            *)

MaxHeaderCols == 2

MaxExtLen == 4

HeaderCells == {Undef, S(sId), S(sName), S(<<"i", "d", " ">>)}

HeaderSheets ==
    {<<>>} \cup {<<h, <<S(s5)>>>> : h \in SeqUpTo(HeaderCells, MaxHeaderCols)}

\* a password-protected workbook: XLSX.readFile throws
Protected ==
    [ext |-> eXlsx, sheet |-> <<>>, lines |-> <<>>, corrupt |-> TRUE]

SentFilesA ==
    {Csv(sh) : sh \in HeaderSheets} \cup {Txt(<<s5>>), Protected, Absent}

\* File B: no sheet row, columns name and id, columns id (padded) and zzz,
\* a blank header row, a text file, a protected workbook, no file
SentFilesB ==
    {Csv(<<>>),
     Csv(<<<<S(sName), S(sId)>>, <<S(s5)>>>>),
     Csv(<<<<S(<<"i", "d", " ">>), S(sZzz), S(sId)>>, <<S(s5)>>>>),
     Csv(<<<<Undef>>, <<S(s5)>>>>),
     Txt(<<s5>>), Protected, Absent}

ExtChars == {"c", "s", "v", "x", "C"}

Extensions ==
    {<<".">> \o w : w \in SeqUpTo(ExtChars, MaxExtLen)}
    \cup {<<>>, eTxt, eXls, eXlsx, <<".", "T", "X", "T">>,
          <<".", "t", "x", "t", "x">>}

\* the same bytes under any original name: a table to XLSX.readFile, two
\* lines to readFileSync
Named(ext) ==
    [ext |-> ext, sheet |-> <<<<S(sId)>>, <<S(s5)>>>>, lines |-> <<sId, s5>>]

ReceiveFiles ==
    \E a \in SentFilesA, b \in SentFilesB, key \in {sId, sZzz} :
        Receive(a, b, key)

ReceiveNamed ==
    \E ext \in Extensions : Receive(Named(ext), Csv(<<<<S(sId)>>, <<S(s5)>>>>), sId)

NextServer ==
    ReceiveFiles \/ ReceiveNamed \/ GetHeaders \/ CrossCheck \/ CrossCheckLegacy

SpecServer == Init /\ [][NextServer]_vars


----------------------------------------------------------------------------
(* The client (app.js): choosing files, the dropdown, submitting *)

MaxPending == 1

\* the files a user chooses from: a table with two columns, a sheet without
\* a header, a text file, a protected workbook
ClientFiles ==
    {Csv(<<<<S(sId), S(sName)>>, <<S(s5), S(sX)>>>>), Csv(<<>>), Txt(<<s5>>),
     Protected}

\* what fetch("/get-headers") and response.json() give the page for the
\* two files: the handler's JSON answer
HeadersAnswer(a, b) ==
    IF "corrupt" \in DOMAIN a \/ "corrupt" \in DOMAIN b
    THEN [for |-> <<a, b>>, result |-> ErrorResponse]
    ELSE [for |-> <<a, b>>,
          result |-> HeadersResponse(readFileContent(a), readFileContent(b))]

\* the synchronous part of fetchAndPopulateHeaders, after a file input
\* changed
Fetching(p) ==
    IF ~IsSent(p.file1) \/ ~IsSent(p.file2)
    THEN [p EXCEPT !.options = <<Option(sUploadBoth, <<>>)>>,
                   !.value = <<>>,
                   !.selectDisabled = TRUE,
                   !.crossCheckDisabled = TRUE,
                   !.event = "change"]
    ELSE [p EXCEPT !.options = <<Option(sLoadingColumnHeaders, <<>>)>>,
                   !.value = <<>>,
                   !.selectDisabled = TRUE,
                   !.crossCheckDisabled = TRUE,
                   !.event = "change"]

\* file1Input / file2Input "change": the user chose, or cleared, a file
ChooseFile ==
    /\ ~page.inputsDisabled
    /\ \E f \in ClientFiles \cup {NoChoice}, input \in {"file1", "file2"} :
         LET p == IF input = "file1" THEN [page EXCEPT !.file1 = f]
                  ELSE [page EXCEPT !.file2 = f]
         IN /\ f # (IF input = "file1" THEN page.file1 ELSE page.file2)
            /\ (IsSent(p.file1) /\ IsSent(p.file2))
                  => Cardinality(inflight) < MaxPending
            /\ page' = Fetching(p)
            /\ inflight' = IF IsSent(p.file1) /\ IsSent(p.file2)
                           THEN inflight \cup {HeadersAnswer(p.file1, p.file2)}
                           ELSE inflight
    /\ UNCHANGED <<serverVars, submitted>>

\* result.headers.forEach((header) => appendChild(new Option(header, header)))
HeaderOptions(headers) == [i \in DOMAIN headers |-> Option(headers[i], headers[i])]

\* fetchAndPopulateHeaders after await response.json(): the dropdown and
\* the button for the answer
Populated(p, result) ==
    IF result.success
    THEN IF Len(result.headers) > 0
         THEN IF result.fileAType = "structured"
              THEN [p EXCEPT
                      !.options = <<Option(sSelectAColumn, <<>>)>>
                                  \o HeaderOptions(result.headers),
                      !.value = <<>>,
                      !.selectDisabled = FALSE,
                      !.crossCheckDisabled = TRUE]
              ELSE [p EXCEPT
                      !.options = <<Option(sLineContent, sLineContent)>>,
                      !.value = sLineContent,
                      !.selectDisabled = TRUE,
                      !.crossCheckDisabled = FALSE]
         ELSE [p EXCEPT !.options = <<Option(sNoHeadersOrEmpty, <<>>)>>,
                        !.value = <<>>,
                        !.selectDisabled = TRUE,
                        !.crossCheckDisabled = TRUE]
    ELSE [p EXCEPT !.options = <<Option(sErrorLoading, <<>>)>>,
                   !.value = <<>>,
                   !.selectDisabled = TRUE,
                   !.crossCheckDisabled = TRUE]

\* an answer of /get-headers reaches the page
HeadersArrive ==
    /\ \E m \in inflight :
         /\ page' = [Populated(page, m.result) EXCEPT !.event = "populate",
                                                      !.shownFor = m.for]
         /\ inflight' = inflight \ {m}
    /\ UNCHANGED <<serverVars, submitted>>

\* the values for which the change listener keeps the button disabled
Unselectable == {<<>>, sLoadingHeaders, sNoHeadersOrEmpty, sErrorLoading}

\* headerSelect "change": the user picked an option of the dropdown
SelectOption ==
    /\ ~page.selectDisabled
    /\ \E i \in DOMAIN page.options :
         /\ page.options[i].value # page.value
         /\ page' = [page EXCEPT
                       !.value = page.options[i].value,
                       !.crossCheckDisabled = page.options[i].value \in Unselectable,
                       !.event = "select"]
    /\ UNCHANGED <<serverVars, inflight, submitted>>

\* uploadForm "submit" up to the fetch: the button was clicked
Submit ==
    /\ ~page.crossCheckDisabled
    /\ ~page.checking
    /\ IF ~IsSent(page.file1) \/ ~IsSent(page.file2)
       THEN page' = [page EXCEPT !.event = "submit"] /\ submitted' = submitted
       ELSE IF ~page.selectDisabled /\ page.value = <<>>
       THEN page' = [page EXCEPT !.event = "submit"] /\ submitted' = submitted
       ELSE /\ page' = [page EXCEPT !.crossCheckDisabled = TRUE,
                                    !.inputsDisabled = TRUE,
                                    !.selectDisabled = TRUE,
                                    !.checking = TRUE,
                                    !.event = "submit"]
            /\ submitted' = submitted \cup {page.value}
    /\ UNCHANGED <<serverVars, inflight>>

\* uploadForm "submit" after the answer of /cross-check: hideLoading
CheckArrives ==
    /\ page.checking
    /\ page' = [page EXCEPT !.crossCheckDisabled = FALSE,
                            !.inputsDisabled = FALSE,
                            !.checking = FALSE,
                            !.event = "answer"]
    /\ UNCHANGED <<serverVars, inflight, submitted>>

InitClient ==
    /\ pc = "idle"
    /\ req = NoReq
    /\ uploads = EmptyObj
    /\ artifacts = EmptyObj
    /\ timers = {}
    /\ now = 0
    /\ served = "none"
    /\ resp = NoResp
    /\ fileAContent = NoContent
    /\ fileBContent = NoContent
    /\ values2Set = {}
    /\ foundInFile2 = <<>>
    /\ missingInFile2 = <<>>
    /\ rival = NoRival
    /\ log = {}
    /\ gets = <<>>
    /\ fired = {}
    /\ \E selectDisabled \in BOOLEAN, crossCheckDisabled \in BOOLEAN :
          page = PageLoaded(selectDisabled, crossCheckDisabled)
    /\ inflight = {}
    /\ submitted = {}

NextClient == ChooseFile \/ HeadersArrive \/ SelectOption \/ Submit \/ CheckArrives

SpecClient == InitClient /\ [][NextClient]_vars

----------------------------------------------------------------------------
(* Two requests on their way through the server at once *)

MaxClock == 1

MaxRivalRuns == 2

RaceFilesA ==
    {Csv(<<<<S(sId)>>, <<S(s5)>>>>), Csv(<<<<S(sId)>>, <<S(sX)>>>>)}

RaceFilesB == {Csv(<<<<S(sId)>>, <<S(s5)>>>>), Txt(<<s5>>)}

\* Date.now() moves on by a millisecond
Tick ==
    /\ now < MaxClock
    /\ now' = now + 1
    /\ UNCHANGED <<pc, req, uploads, artifacts, timers, served, resp,
                   fileAContent, fileBContent, values2Set, foundInFile2,
                   missingInFile2, rival, log, gets, fired>>
    /\ UNCHANGED clientVars

\* upload.fields for the request under observation
ReceiveRacing ==
    \E a \in RaceFilesA, b \in RaceFilesB : Receive(a, b, sId)

\* upload.fields for the second request: multer stores its files under
\* fieldname-Date.now()+ext as well
RivalReceive ==
    /\ rival.pc = "idle"
    /\ rival.runs < MaxRivalRuns
    /\ \E a \in RaceFilesA, b \in RaceFilesB :
         /\ uploads' = StoredFiles(uploads, a, b, now)
         /\ rival' = [rival EXCEPT !.pc = "uploaded",
                                   !.req = RequestOf(a, b, sId, now),
                                   !.runs = @ + 1]
    /\ UNCHANGED <<pc, req, artifacts, timers, now, served, resp,
                   fileAContent, fileBContent, values2Set, foundInFile2,
                   missingInFile2, log, gets, fired>>
    /\ UNCHANGED clientVars

\* app.post("/cross-check") run for the second request
RivalCrossCheck ==
    /\ rival.pc = "uploaded"
    /\ LET out == Handled(rival.req, artifacts, now)
       IN /\ rival' = [rival EXCEPT !.pc = out.pc,
                                    !.resp = out.resp,
                                    !.foundInFile2 = out.part.found,
                                    !.missingInFile2 = out.part.missing]
          /\ artifacts' = out.dir
          /\ timers' = timers \cup out.timers
          /\ uploads' = out.uploads
          /\ log' = log \cup Logged(rival.req, out, "main")
    /\ UNCHANGED <<pc, req, now, served, resp, fileAContent, fileBContent,
                   values2Set, foundInFile2, missingInFile2, gets, fired>>
    /\ UNCHANGED clientVars

\* the connection of the second request is over: the next one can come
RivalAgain ==
    /\ rival.pc \in {"done", "unanswered"}
    /\ rival.runs < MaxRivalRuns
    /\ rival' = [NoRival EXCEPT !.runs = rival.runs]
    /\ UNCHANGED <<pc, req, uploads, artifacts, timers, now, served, resp,
                   fileAContent, fileBContent, values2Set, foundInFile2,
                   missingInFile2, log, gets, fired>>
    /\ UNCHANGED clientVars

NextRace ==
    \/ Tick
    \/ ReceiveRacing
    \/ CrossCheck
    \/ RivalReceive
    \/ RivalCrossCheck
    \/ RivalAgain

SpecRace == Init /\ [][NextRace]_vars

----------------------------------------------------------------------------
(* The artifacts: GET /download-csv/:filename and the expiry timers *)
(* (server.js 428-466, 505-532) *)

MaxGets == 2

\* the artifact names the answer of the observed request gave to its client
KnownNames ==
    IF pc = "done" /\ resp.success /\ "matchedCsvFilename" \in DOMAIN resp
    THEN {resp.matchedCsvFilename, resp.missingCsvFilename} \ {NoFile}
    ELSE {}

\* fs.unlink(filePath): the file is gone; unlinking what is gone is an
\* error that is only logged
Unlinked(dir, file) == RemoveFiles(dir, {file})

\* Expired with its test inverted: if (!fs.existsSync(path))
ExpiredTestInverted(dir, file) ==
    IF file \notin DOMAIN dir THEN Unlinked(dir, file) ELSE dir

\* the timer callback: if (fs.existsSync(path)) fs.unlink(path)
Expired(dir, file) ==
    IF file \in DOMAIN dir THEN Unlinked(dir, file) ELSE dir

\* app.get("/download-csv/:filename") up to res.download: the file exists
\* and streaming starts, or the answer is 404
GetArtifact ==
    /\ Len(gets) < MaxGets
    /\ \E file \in KnownNames :
         gets' = Append(gets,
                   [file |-> file,
                    status |-> IF file \in DOMAIN artifacts
                               THEN "streaming" ELSE "404",
                    late |-> file \in fired,
                    afterDownload |->
                        \E i \in DOMAIN gets :
                            gets[i].file = file /\ gets[i].status = "200"])
    /\ UNCHANGED <<pc, req, uploads, artifacts, timers, now, served, resp,
                   fileAContent, fileBContent, values2Set, foundInFile2,
                   missingInFile2, rival, log, fired>>
    /\ UNCHANGED clientVars

\* the callback of res.download without an error: the file was sent and is
\* unlinked
DownloadDone ==
    /\ \E i \in DOMAIN gets :
         /\ gets[i].status = "streaming"
         /\ gets' = [gets EXCEPT ![i].status = "200"]
         /\ artifacts' = Unlinked(artifacts, gets[i].file)
    /\ UNCHANGED <<pc, req, uploads, timers, now, served, resp,
                   fileAContent, fileBContent, values2Set, foundInFile2,
                   missingInFile2, rival, log, fired>>
    /\ UNCHANGED clientVars

\* the callback of res.download with an error (the client went away, the
\* file could not be read): the file is left where it is
DownloadFail ==
    /\ \E i \in DOMAIN gets :
         /\ gets[i].status = "streaming"
         /\ gets' = [gets EXCEPT ![i].status = "failed"]
    /\ UNCHANGED <<pc, req, uploads, artifacts, timers, now, served, resp,
                   fileAContent, fileBContent, values2Set, foundInFile2,
                   missingInFile2, rival, log, fired>>
    /\ UNCHANGED clientVars

\* time passes until a pending timer is due
Wait ==
    /\ \E t \in timers : now < t.due /\ now' = t.due
    /\ UNCHANGED <<pc, req, uploads, artifacts, timers, served, resp,
                   fileAContent, fileBContent, values2Set, foundInFile2,
                   missingInFile2, rival, log, gets, fired>>
    /\ UNCHANGED clientVars

\* a setTimeout callback of /cross-check runs, 5 minutes after it was set
TimerFire ==
    /\ \E t \in timers :
         /\ now >= t.due
         /\ timers' = timers \ {t}
         /\ artifacts' = Expired(artifacts, t.file)
         /\ fired' = fired \cup {t.file}
    /\ UNCHANGED <<pc, req, uploads, now, served, resp,
                   fileAContent, fileBContent, values2Set, foundInFile2,
                   missingInFile2, rival, log, gets>>
    /\ UNCHANGED clientVars

NextArtifacts ==
    \/ Tick
    \/ ReceiveRacing
    \/ CrossCheck
    \/ GetArtifact
    \/ DownloadDone
    \/ DownloadFail
    \/ Wait
    \/ TimerFire

SpecArtifacts == Init /\ [][NextArtifacts]_vars

\* the event loop runs a timer that is due, and time does not stand still
\* while a timer is pending
SpecArtifactsLive ==
    SpecArtifacts /\ WF_vars(TimerFire) /\ WF_vars(Wait)

----------------------------------------------------------------------------
(* Files with more records than the answer carries inline *)

MaxLongRows == 12

\* row i of a long table: its number, and a name in every second row (the
\* other rows are short)
LongRow(i) ==
    IF i % 2 = 0 THEN <<S(NumToStr(i)), S(sX)>> ELSE <<S(NumToStr(i))>>

\* a table with the columns id and name and n data rows
LongSheet(n) == <<<<S(sId), S(sName)>>>> \o [i \in 1..n |-> LongRow(i)]

\* a text file with the lines 1 .. n
LongLines(n) == [i \in 1..n |-> NumToStr(i)]

LongFilesA ==
    {Csv(LongSheet(n)) : n \in 0..MaxLongRows}
    \cup {Txt(LongLines(n)) : n \in 0..MaxLongRows}

\* the ids File B is made of
ShortIds == {NumToStr(1), NumToStr(2), NumToStr(11)}

\* File B: up to two of the ids, as a table or as lines
ShortFilesB ==
    {Csv(<<<<S(sId)>>>> \o [i \in DOMAIN ids |-> <<S(ids[i])>>]) :
        ids \in SeqUpTo(ShortIds, 2)}
    \cup {Txt(ids) : ids \in SeqUpTo(ShortIds, 2)}

ReceiveLong ==
    \E a \in LongFilesA, b \in ShortFilesB, key \in {sId, sName} :
        Receive(a, b, key)

NextSample == ReceiveLong \/ CrossCheck \/ CrossCheckLegacy

SpecSample == Init /\ [][NextSample]_vars

----------------------------------------------------------------------------
(* Properties *)

\* the tables of the answered request, as the answering handler ingested them
InA == fileAContent

InB == fileBContent

LegacyInA == fileAContent

LegacyInB == fileBContent

MainDone == pc = "done" /\ served = "main"

LegacyDone == pc = "done" /\ served = "legacy"

BothStructured == InA.type = "structured" /\ InB.type = "structured"

\* the key the handler with header negotiation compares by
EffectiveKey == IF BothStructured THEN req.selectedColumn ELSE sLineContent

KeyResolved == ~BothStructured \/ req.selectedColumn \in Range(InA.headers)

KeyOfA(r) == ValueOf(r, InA.type, EffectiveKey)

KeyOfB(q) == ValueOf(q, InB.type, EffectiveKey)

\* r has a non-empty key value whose string form is the string form of the
\* key value of some record of File B
HasPartner(r) ==
    /\ NonEmpty(KeyOfA(r))
    /\ \E q \in Range(InB.data) :
          NonEmpty(KeyOfB(q)) /\ String(KeyOfB(q)) = String(KeyOfA(r))

Count(seq, x) == Cardinality({i \in DOMAIN seq : seq[i] = x})

RECURSIVE IsSubseq(_, _)
IsSubseq(sub, seq) ==
    IF sub = <<>> THEN TRUE
    ELSE IF seq = <<>> THEN FALSE
    ELSE IF Head(sub) = Head(seq) THEN IsSubseq(Tail(sub), Tail(seq))
    ELSE IsSubseq(sub, Tail(seq))

NothingComputed ==
    /\ values2Set = {}
    /\ foundInFile2 = <<>>
    /\ missingInFile2 = <<>>
    /\ DOMAIN artifacts = {}
    /\ timers = {}

\* C1: a /cross-check request that reaches partitioning (File A and File B
\* have at least one row each, the key was resolved) answers with
\* foundCount + missingCount = totalFile1Rows, and every record of File A is
\* in exactly one of the two partitions.
C1_CountsAddUp ==
    (MainDone /\ Len(InA.data) > 0 /\ Len(InB.data) > 0 /\ KeyResolved)
    => /\ resp.success
       /\ resp.foundCount + resp.missingCount = resp.totalFile1Rows
       /\ resp.totalFile1Rows = Len(InA.data)
       /\ resp.foundCount = Len(foundInFile2)
       /\ resp.missingCount = Len(missingInFile2)
       /\ \A r \in Range(InA.data) :
             Count(foundInFile2, r) + Count(missingInFile2, r)
                = Count(InA.data, r)

C1_Witness ==
    /\ MainDone /\ Len(InB.data) > 0 /\ KeyResolved
    /\ resp.success /\ resp.foundCount = 1 /\ resp.missingCount = 1
    /\ \E r \in Range(missingInFile2) : ~NonEmpty(KeyOfA(r))

ScenarioRequest ==
    /\ req.fileA.sent = ScenarioA
    /\ req.fileB.sent = ScenarioB
    /\ req.selectedColumn = sId

ScenarioAnswer ==
    /\ foundInFile2 = <<(sId :> S(<<"2">>)) @@ (sName :> S(<<"y">>))>>
    /\ missingInFile2 = <<(sId :> S(<<"1">>)) @@ (sName :> S(sX))>>
    /\ resp.foundCount = 1
    /\ resp.missingCount = 1

\* C2 as stated: for two structured tables and a valid key, a record of
\* File A is in matched iff its key value is non-empty and equal, as a
\* string, to the key value of some record of File B; otherwise it is in
\* missing.  The documented scenario gives matched = [{2,y}], missing = [{1,x}].
C2_Original ==
    (MainDone /\ BothStructured /\ KeyResolved)
    => /\ \A r \in Range(InA.data) :
             /\ r \in Range(foundInFile2) <=> HasPartner(r)
             /\ ~HasPartner(r) => r \in Range(missingInFile2)
       /\ ScenarioRequest => ScenarioAnswer

\* C2 amended: the same, for a File B that has at least one row.
C2_MatchedIffPartner ==
    (MainDone /\ BothStructured /\ KeyResolved /\ Len(InB.data) > 0)
    => /\ \A r \in Range(InA.data) :
             /\ r \in Range(foundInFile2) <=> HasPartner(r)
             /\ r \in Range(missingInFile2) <=> ~HasPartner(r)
       /\ ScenarioRequest => ScenarioAnswer

C2_Witness == MainDone /\ ScenarioRequest /\ resp.foundCount = 1

\* the full text of a record: the line itself, or the cells of the row in
\* header order, as text, separated by commas
RECURSIVE RowText(_, _, _)
RowText(item, headers, i) ==
    IF i > Len(headers) THEN <<>>
    ELSE (IF i > 1 THEN <<",">> ELSE <<>>)
         \o (IF NonEmpty(Prop(item, headers[i]))
             THEN String(Prop(item, headers[i])) ELSE <<>>)
         \o RowText(item, headers, i + 1)

FullText(item, content) ==
    IF content.type = "structured" THEN RowText(item, content.headers, 1)
    ELSE item

\* C3: when either file is plain text the requested key is ignored, the
\* reported key is "Line Content", and a record of File A is matched exactly
\* when its full text is the full text of some record of File B, also when
\* one of the two files is structured.
C3_FullTextComparison ==
    (MainDone /\ ~BothStructured)
    => /\ resp.success
       /\ resp.comparisonColumn = S(sLineContent)
       /\ \A r \in Range(InA.data) :
             r \in Range(foundInFile2)
             <=> \E q \in Range(InB.data) :
                    FullText(q, InB) = FullText(r, InA)

\* C3, the part the code has: two plain-text files are compared line by line.
C3_PlainTextPart ==
    (MainDone /\ InA.type = "plain_text" /\ InB.type = "plain_text")
    => /\ resp.success
       /\ resp.comparisonColumn = S(sLineContent)
       /\ \A r \in Range(InA.data) :
             r \in Range(foundInFile2) <=> r \in Range(InB.data)
       /\ (req.fileA.sent = ScenarioTextA /\ req.fileB.sent = ScenarioTextB)
          => /\ foundInFile2 = <<<<"b", "a", "r">>>>
             /\ missingInFile2 = <<<<"f", "o", "o">>>>

\* C4 as stated: when File A is structured and the requested key is not one
\* of its columns, the request fails with status 400 and computes nothing.
C4_Original ==
    (MainDone /\ InA.type = "structured"
              /\ req.selectedColumn \notin Range(InA.headers))
    => /\ resp.status = 400
       /\ ~resp.success
       /\ "foundCount" \notin DOMAIN resp
       /\ NothingComputed

\* C4 amended: when File A and File B are both structured and the requested
\* key is not one of File A's columns, the request fails with status 400,
\* success = false, and computes nothing: no lookup set, no partitions, no
\* counts, no artifact and no expiry timer.
C4_UnknownKeyFails ==
    (MainDone /\ BothStructured
              /\ req.selectedColumn \notin Range(InA.headers))
    => /\ resp.status = 400
       /\ ~resp.success
       /\ "foundCount" \notin DOMAIN resp
       /\ "missingCount" \notin DOMAIN resp
       /\ "missingContents" \notin DOMAIN resp
       /\ NothingComputed

C4_Witness ==
    /\ MainDone /\ BothStructured
    /\ req.selectedColumn \notin Range(InA.headers)
    /\ Len(InA.data) > 0
    /\ \E q \in Range(InB.data) : NonEmpty(Prop(q, req.selectedColumn))
    /\ resp.status = 400

\* C5: whenever File A has zero rows the answer is a success with
\* foundCount = 0, missingCount = 0 and an empty missing list, never an
\* error, also for a structured File A without any row.
C5_EmptyAIsSuccess ==
    (MainDone /\ Len(InA.data) = 0)
    => /\ resp.success
       /\ resp.status = 200
       /\ resp.foundCount = 0
       /\ resp.missingCount = 0
       /\ resp.missingContents = <<>>

\* C6: when File B has zero rows, File A has at least one row and the key
\* was resolved, the answer is a success with both partitions empty and
\* foundCount = missingCount = 0, and no artifact is written; in both
\* handlers.
C6_EmptyBShortCircuit ==
    /\ (MainDone /\ Len(InB.data) = 0 /\ Len(InA.data) > 0 /\ KeyResolved)
       => /\ resp.success
          /\ resp.foundCount = 0
          /\ resp.missingCount = 0
          /\ resp.missingContents = <<>>
          /\ NothingComputed
    /\ (LegacyDone /\ Len(LegacyInB.data) = 0 /\ Len(LegacyInA.data) > 0)
       => /\ resp.success
          /\ resp.foundCount = 0
          /\ resp.missingCount = 0
          /\ resp.missingContents = <<>>
          /\ NothingComputed

C6_Witness ==
    /\ MainDone /\ Len(InB.data) = 0 /\ Len(InA.data) = 2 /\ KeyResolved
    /\ resp.success
    /\ resp.totalFile1Rows = 2

EmptyKeyRecordsAreMissing ==
    \A r \in Range(InA.data) :
        ~NonEmpty(KeyOfA(r)) => r \in Range(missingInFile2)

\* C7 as stated: a record of File A whose key value is "", null or absent
\* is always in missing, whatever File B contains, and the lookup set holds
\* no entry such a record could match.
C7_Original ==
    (MainDone /\ KeyResolved)
    => /\ EmptyKeyRecordsAreMissing
       /\ S(<<>>) \notin values2Set

\* C7 amended: such a record is never in matched, and it is in missing
\* whenever File B has at least one row; the lookup set holds neither the
\* empty string nor anything but the string forms of File B's non-empty key
\* values.
C7_EmptyKeyIsMissing ==
    (MainDone /\ KeyResolved)
    => /\ Len(InB.data) > 0 => EmptyKeyRecordsAreMissing
       /\ \A r \in Range(InA.data) :
             ~NonEmpty(KeyOfA(r)) => r \notin Range(foundInFile2)
       /\ S(<<>>) \notin values2Set
       /\ \A v \in values2Set :
             \E q \in Range(InB.data) :
                NonEmpty(KeyOfB(q)) /\ v = S(String(KeyOfB(q)))

C7_Witness ==
    /\ MainDone /\ KeyResolved /\ BothStructured
    /\ \E r \in Range(missingInFile2) : KeyOfA(r) = S(<<>>)
    /\ \E r \in Range(missingInFile2) : KeyOfA(r) = Null
    /\ \E q \in Range(InB.data) : KeyOfB(q) = S(<<>>)

\* the key value of a record as the handler without header negotiation
\* reads it
LegacyKeyOfA(r) == LegacyValueOf(r, LegacyInA.type, LegacyInA.comparisonKey)

LegacyKeyOfB(q) == LegacyValueOf(q, LegacyInB.type, LegacyInA.comparisonKey)

\* C8: in every /cross-check handler a record of File A is matched exactly
\* when the string form of its non-empty key value is the string form of
\* the key value of a record of File B: the number 5 and the string "5" are
\* the same key.
C8_StringEquality ==
    /\ (MainDone /\ KeyResolved /\ Len(InA.data) > 0 /\ Len(InB.data) > 0)
       => \A r \in Range(InA.data) :
             r \in Range(foundInFile2) <=> HasPartner(r)
    /\ (LegacyDone /\ resp.status = 200
                   /\ Len(LegacyInA.data) > 0 /\ Len(LegacyInB.data) > 0)
       => \A r \in Range(LegacyInA.data) :
             r \in Range(foundInFile2)
             <=> /\ NonEmpty(LegacyKeyOfA(r))
                 /\ \E q \in Range(LegacyInB.data) :
                       /\ NonEmpty(LegacyKeyOfB(q))
                       /\ String(LegacyKeyOfB(q)) = String(LegacyKeyOfA(r))

\* C8, the part the code has: the handler with header negotiation matches a
\* numeric cell 5 of one file with a text cell "5" of the other.
C8_MainPart ==
    (MainDone /\ BothStructured /\ KeyResolved /\ Len(InB.data) > 0)
    => \A i \in 1..Len(InA.data) :
          (/\ At(req.fileA.sent.sheet[i + 1], 0) \in {N(5), S(s5)}
           /\ req.fileA.sent.sheet[1] = <<S(req.selectedColumn)>>
           /\ req.fileB.sent.sheet[1] = <<S(req.selectedColumn)>>
           /\ \E j \in 1..Len(InB.data) :
                 At(req.fileB.sent.sheet[j + 1], 0) \in {N(5), S(s5)})
          => InA.data[i] \in Range(foundInFile2)

\* C9: matched and missing are each a subsequence of File A's rows: their
\* records are File A's records, unmodified, in File A's order.
C9_OrderPreserved ==
    MainDone
    => /\ IsSubseq(foundInFile2, InA.data)
       /\ IsSubseq(missingInFile2, InA.data)

C9_Witness ==
    /\ MainDone
    /\ Len(missingInFile2) = 2
    /\ missingInFile2[1] # missingInFile2[2]
    /\ missingInFile2 = InA.data

\* C10 as stated: for two structured tables a key that is a column of File A
\* and not of File B is accepted, the lookup set is empty, foundCount is 0
\* and every record of File A is in missing.
C10_Original ==
    (MainDone /\ BothStructured
              /\ req.selectedColumn \in Range(InA.headers)
              /\ req.selectedColumn \notin Range(InB.headers))
    => /\ resp.success
       /\ values2Set = {}
       /\ resp.foundCount = 0
       /\ missingInFile2 = InA.data
       /\ resp.missingCount = Len(InA.data)

\* C10 amended: such a key is accepted, the lookup set is empty and
\* foundCount is 0; every record of File A is in missing when File B has at
\* least one row, and both partitions are empty when it has none.
C10_KeyAbsentFromB ==
    (MainDone /\ BothStructured
              /\ req.selectedColumn \in Range(InA.headers)
              /\ req.selectedColumn \notin Range(InB.headers))
    => /\ resp.success
       /\ resp.status = 200
       /\ values2Set = {}
       /\ resp.foundCount = 0
       /\ foundInFile2 = <<>>
       /\ Len(InB.data) > 0
          => /\ missingInFile2 = InA.data
             /\ resp.missingCount = Len(InA.data)
       /\ Len(InB.data) = 0
          => /\ missingInFile2 = <<>>
             /\ resp.missingCount = 0

C10_Witness ==
    /\ MainDone /\ BothStructured
    /\ req.selectedColumn \in Range(InA.headers)
    /\ req.selectedColumn \notin Range(InB.headers)
    /\ InB.headers # <<>>
    /\ Len(InB.data) > 0
    /\ Len(InA.data) = 2
    /\ \E r \in Range(InA.data) : NonEmpty(KeyOfA(r))
    /\ resp.missingCount = 2

----------------------------------------------------------------------------
(* Properties of any request to the server (SpecServer) *)

\* the request got its JSON answer from one of the three handlers
Replied == pc = "done"

\* C15: once a /get-headers or /cross-check request has been answered, on
\* its success path and on every failure path, none of the files multer
\* stored for it is left in the uploads directory.
C15_NoUploadLeft == Replied => PathsOf(req) \cap DOMAIN uploads = {}

\* the part of C15 that holds: a request that supplied both files leaves
\* nothing behind, whatever its answer
C15_BothSuppliedPart ==
    Replied /\ BothSupplied(req) => PathsOf(req) \cap DOMAIN uploads = {}

\* readFileContent threw on one of the two files of a /cross-check request
FailedIngestion ==
    /\ Replied /\ served \in {"main", "legacy"} /\ BothSupplied(req)
    /\ \E f \in {req.fileA, req.fileB} : "corrupt" \in DOMAIN f.sent

\* the requested key is not a column of File A (both files structured)
FailedKeyResolution ==
    /\ Replied /\ served = "main" /\ BothSupplied(req)
    /\ ~FailedIngestion
    /\ BothStructured
    /\ req.selectedColumn \notin Range(InA.headers)

\* the legacy handler found no key: File A's first header cell is blank
FailedLegacyKey ==
    /\ Replied /\ served = "legacy" /\ BothSupplied(req)
    /\ ~FailedIngestion
    /\ Len(LegacyInA.data) > 0 /\ Len(LegacyInB.data) > 0
    /\ ~Truthy(LegacyInA.comparisonKey)

PartialOutputFields ==
    {"foundCount", "missingCount", "totalFile1Rows", "missingContents",
     "matchedCsvFilename", "missingCsvFilename"}

\* C16: a /cross-check request that fails during ingestion or key resolution
\* leaves no partial output: no artifact exists, no expiry timer was
\* scheduled, nothing was partitioned and the failure answer carries no
\* counts, no sample and no artifact names.
C16_NoPartialOutput ==
    (FailedIngestion \/ FailedKeyResolution \/ FailedLegacyKey)
    => /\ ~resp.success
       /\ resp.status \in {400, 500}
       /\ DOMAIN resp \cap PartialOutputFields = {}
       /\ NothingComputed

C16_Witness ==
    /\ FailedIngestion /\ served = "main"
    /\ "corrupt" \in DOMAIN req.fileB.sent
    /\ req.fileA.sent = Csv(<<<<S(sId)>>, <<S(s5)>>>>)
    /\ resp.status = 500

\* the columns of both tables, File A's first
AllColumns == InA.headers \o InB.headers

HeadersReplied == Replied /\ served = "headers" /\ resp.success

\* position of the first occurrence of x in seq
FirstIndex(seq, x) == CHOOSE i \in DOMAIN seq :
                          seq[i] = x /\ \A j \in 1..(i - 1) : seq[j] # x

\* list is the union of the columns of both tables: every column once, no
\* blank entry, ordered by first appearance in File A's columns followed by
\* File B's
IsOrderedUnion(list) ==
    /\ Range(list) = Range(InA.headers) \cup Range(InB.headers)
    /\ \A i, j \in DOMAIN list : i # j => list[i] # list[j]
    /\ \A i \in DOMAIN list : Trim(list[i]) # <<>>
    /\ \A i, j \in DOMAIN list :
          i < j => FirstIndex(AllColumns, list[i]) < FirstIndex(AllColumns, list[j])
    /\ SubSeq(list, 1, Cardinality(Range(InA.headers))) = Dedup(InA.headers, {})

\* C17 as stated: whenever both files are structured the answer of
\* /get-headers is the ordered union of their column names.
C17_Original == HeadersReplied /\ BothStructured => IsOrderedUnion(resp.headers)

\* C17: when both files are structured and at least one of them has a
\* column, /get-headers returns the union of the column names of File A and
\* File B without duplicates and without blank entries, File A's columns
\* first in File A's order, then File B's new columns in File B's order.
C17_OrderedUnion ==
    HeadersReplied /\ BothStructured /\ Len(AllColumns) > 0
    => IsOrderedUnion(resp.headers)

C17_Witness ==
    /\ HeadersReplied /\ BothStructured
    /\ InA.headers = <<sName, sId>>
    /\ InB.headers = <<sId, sZzz, sId>>
    /\ resp.headers = <<sName, sId, sZzz>>

AllowedExtensions == {eXlsx, eXls, eCsv, eTxt}

\* the files of the request that multer stored
FilesStored ==
    IF pc \in {"uploaded", "done", "unanswered"}
    THEN (IF "fileA" \in DOMAIN req THEN {req.fileA} ELSE {})
         \cup (IF "fileB" \in DOMAIN req THEN {req.fileB} ELSE {})
    ELSE {}

\* the files a handler passed to readFileContent
FilesRead == IF Replied /\ BothSupplied(req) THEN FilesStored ELSE {}

\* C20: a file is accepted by the upload filter, and so read by
\* readFileContent, only if the extension of its original name is, up to
\* letter case, exactly one of .xlsx, .xls, .csv, .txt.
C20_OnlyAllowedExtensions ==
    \A f \in FilesRead : ToLowerCase(f.originalext) \in AllowedExtensions

\* the part of C20 that holds: a request is rejected only for a file whose
\* extension is not one of the four, and a stored file's extension contains
\* one of the four words
C20_FilterPart ==
    /\ pc = "rejected"
       => \E f \in {req.fileA, req.fileB} :
             ToLowerCase(f.originalext) \notin AllowedExtensions
    /\ \A f \in FilesStored : fileFilter(f.originalext)

\* C18, the server's part: when both files are structured and neither has a
\* column, /get-headers answers with the single candidate "No Headers Found"
C18_ServerPart ==
    HeadersReplied /\ BothStructured /\ Len(AllColumns) = 0
    => resp.headers = <<sNoHeadersFound>>

----------------------------------------------------------------------------
(* Properties of the page (SpecClient) *)

\* the dropdown is enabled and one of its options has this value
Offered(value) ==
    /\ ~page.selectDisabled
    /\ \E i \in DOMAIN page.options : page.options[i].value = value

\* C18, the client's part: the sentinel "No Headers Found" is never a
\* selectable option of the dropdown
C18_SentinelNeverOffered == ~Offered(sNoHeadersFound)

\* C18: the sentinel "No Headers Found", which /get-headers reports when
\* both files are structured and neither has a column, is treated as
\* non-selectable by the client: it is never submitted to /cross-check as
\* the selected column.
C18_SentinelNeverSubmitted == sNoHeadersFound \notin submitted

\* the files whose answer the dropdown shows are the files chosen now
ShowsCurrentFiles ==
    /\ page.event = "populate"
    /\ page.shownFor = <<page.file1, page.file2>>

PlainText(file) == IsSent(file) /\ ~isStructured(ToLowerCase(file.ext))

Readable(file) == IsSent(file) /\ "corrupt" \notin DOMAIN file

\* C19, the server's part: when either file is plain text /get-headers
\* answers with exactly ["Line Content"]
C19_ServerPart ==
    HeadersReplied /\ ~BothStructured => resp.headers = <<sLineContent>>

\* C19: when either of the two chosen files is plain text, the page shows
\* the single option "Line Content" with the dropdown disabled and the
\* cross-check button enabled, whichever file is the plain-text one.
C19_LineContentForced ==
    (/\ ShowsCurrentFiles
     /\ Readable(page.file1) /\ Readable(page.file2)
     /\ PlainText(page.file1) \/ PlainText(page.file2))
    => /\ page.options = <<Option(sLineContent, sLineContent)>>
       /\ page.selectDisabled
       /\ ~page.crossCheckDisabled

\* the part of C19 that holds: File A is the plain-text file
C19_FileAPlainPart ==
    (/\ ShowsCurrentFiles
     /\ Readable(page.file1) /\ Readable(page.file2)
     /\ PlainText(page.file1))
    => /\ page.options = <<Option(sLineContent, sLineContent)>>
       /\ page.selectDisabled
       /\ ~page.crossCheckDisabled

----------------------------------------------------------------------------
(* Properties of requests handled side by side (SpecRace) *)

SameResult(x, y) ==
    /\ x.found = y.found
    /\ x.missing = y.missing
    /\ x.answer = y.answer

\* C11: two answered /cross-check requests that sent the same File A, the
\* same File B and the same key got the same partitions (the same records
\* in the same order), the same counts and the same comparison key,
\* whatever other requests the server handled before or in between.
C11_Deterministic ==
    \A x, y \in log :
        x.sent = y.sent /\ x.handler = y.handler => SameResult(x, y)

\* the part of C11 that holds: two such requests whose handlers read from
\* uploads the files that were sent got the same result
C11_IntactPart ==
    \A x, y \in log :
        (x.sent = y.sent /\ x.handler = y.handler /\ x.intact /\ y.intact)
        => SameResult(x, y)

\* what the handler computes for the files and the key a request sent
AloneOutcome(r) ==
    CrossCheckOutcome(r.fileA.sent, r.fileB.sent, r.selectedColumn, EmptyObj, 0)

\* the handler of the observed request has run
Handler1Ran == pc \in {"done", "unanswered"} /\ served = "main"

\* the artifact an answer names holds the partition the handler built,
\* as long as it exists
\* the text a CSV shows for a value of a record
ShownAs(value) ==
    CASE value.t = "string" -> value.s
      [] value.t = "number" -> NumToStr(value.n)
      [] OTHER -> <<>>

\* the CSV has one line for every record of the partition, in the order of
\* the partition, and the line shows the values of the record: the line
\* itself for a line of text, every column of the record otherwise
HoldsRecords(csv, partition, dataType) ==
    /\ Len(csv.rows) = Len(partition)
    /\ IF dataType = "structured"
       THEN /\ \A i \in DOMAIN partition : DOMAIN partition[i] \subseteq csv.columns
            /\ \A i \in DOMAIN partition :
                  \A k \in csv.columns :
                      csv.rows[i][k] = ShownAs(Prop(partition[i], k))
       ELSE /\ csv.columns = {sLineContent}
            /\ \A i \in DOMAIN partition :
                  csv.rows[i][sLineContent] = partition[i]

ArtifactHolds(name, partition) ==
    name \in DOMAIN artifacts
       => HoldsRecords(artifacts[name], partition, InA.type)

\* C12: in any interleaving of two upload requests the observed request is
\* answered, with the partitions, the counts and the key it would get
\* alone, and the artifacts its answer names hold its own partitions: the
\* other request neither replaced nor removed its uploads or artifacts.
C12_Isolated ==
    Handler1Ran
    => /\ pc = "done"
       /\ foundInFile2 = AloneOutcome(req).part.found
       /\ missingInFile2 = AloneOutcome(req).part.missing
       /\ Reported(resp) = Reported(AloneOutcome(req).resp)
       /\ resp.success /\ "matchedCsvFilename" \in DOMAIN resp
          => /\ ArtifactHolds(resp.matchedCsvFilename, foundInFile2)
             /\ ArtifactHolds(resp.missingCsvFilename, missingInFile2)

\* the part of C12 that holds: when the uploads of the two requests were
\* stored under different names the observed request is answered as it
\* would be alone
C12_OwnPathsPart ==
    (/\ Handler1Ran
     /\ rival.runs = 1 /\ rival.req # NoReq
     /\ PathsOf(req) \cap PathsOf(rival.req) = {})
    => /\ pc = "done"
       /\ foundInFile2 = AloneOutcome(req).part.found
       /\ missingInFile2 = AloneOutcome(req).part.missing
       /\ Reported(resp) = Reported(AloneOutcome(req).resp)

----------------------------------------------------------------------------
(* Properties of the artifacts (SpecArtifacts) *)

\* C13: an artifact is streamed to at most one successful download: of the
\* GET /download-csv requests for one filename, also of those that arrive
\* while another is still streaming, at most one ends with the file sent.
C13_StreamedOnce ==
    \A i, j \in DOMAIN gets :
        (i # j /\ gets[i].file = gets[j].file /\ gets[i].status = "200")
        => gets[j].status # "200"

\* the part of C13 that holds: a GET that arrives after a download of the
\* file has completed is answered 404
C13_AfterCompletionPart ==
    \A j \in DOMAIN gets : gets[j].afterDownload => gets[j].status = "404"

ArtifactNames ==
    {[kind |-> k, ts |-> t] :
        k \in {"matched_contents", "missing_contents"}, t \in 0..MaxClock}

C14_ExpiredIsGone == \A file \in fired : file \notin DOMAIN artifacts

\* C14, after the timer has run: any GET for the artifact is answered 404
C14_LateGetIs404 ==
    \A i \in DOMAIN gets : gets[i].late => gets[i].status = "404"

CrossCheckDone == pc = "done" /\ served \in {"main", "legacy"}

\* C21: the missingContents of a successful /cross-check answer are the first
\* min(10, missingCount) records of the missing partition, in the order of
\* the partition (as JSON carries them: a cell that is absent has no entry);
\* none of them is a record of the matched partition and there are never
\* more than 10.
C21_SampleIsPrefix ==
    (CrossCheckDone /\ resp.success)
    => /\ resp.missingCount = Len(missingInFile2)
       /\ Len(resp.missingContents) = Min(10, resp.missingCount)
       /\ Len(resp.missingContents) <= 10
       /\ \A i \in DOMAIN resp.missingContents :
             /\ resp.missingContents[i] = JsonOf(missingInFile2[i], InA.type)
             /\ \A f \in Range(foundInFile2) :
                   resp.missingContents[i] # JsonOf(f, InA.type)

\* eleven records are missing, the second record of File A is matched, and
\* the records sent start with the first and the third
C21_Witness ==
    /\ MainDone /\ resp.success
    /\ resp.missingCount = 11
    /\ resp.foundCount = 1
    /\ Len(resp.missingContents) = 10
    /\ InA.type = "structured"
    /\ foundInFile2[1] = InA.data[2]
    /\ resp.missingContents[1] = (sId :> S(NumToStr(1)))
    /\ resp.missingContents[2] = JsonOf(InA.data[3], "structured")

\* the texts of the header row of a sheet, blank ones included, by position
HeaderTexts(sheet) ==
    [j \in DOMAIN sheet[1] |-> HeaderText(SheetToJson(sheet, FALSE)[1][j])]

\* the position of column h in the sheet: where its header cell is (the last
\* such cell if the name is repeated), counted from 0
OwnPosition(sheet, h) ==
    (CHOOSE j \in DOMAIN sheet[1] :
        /\ HeaderTexts(sheet)[j] = h
        /\ \A k \in DOMAIN sheet[1] : HeaderTexts(sheet)[k] = h => k <= j) - 1

\* every record of the ingested table maps every retained column to the cell
\* at the column's own position in its row
CellsAtOwnPosition(sheet, content) ==
    /\ Len(content.data) = Len(sheet) - 1
    /\ \A i \in DOMAIN content.data :
          \A h \in Range(content.headers) :
              Prop(content.data[i], h)
                 = At(SheetToJson(sheet, FALSE)[i + 1], OwnPosition(sheet, h))

\* a blank header cell stands before a non-blank one
BlankBeforeColumn(sheet) ==
    \E j, k \in DOMAIN sheet[1] :
        j < k /\ HeaderTexts(sheet)[j] = <<>> /\ HeaderTexts(sheet)[k] # <<>>

\* C22: structured ingestion turns every data row into one record that maps
\* each retained column name to the cell at that column's own position in the
\* row (absent if the row is too short), whatever the header row is, blank
\* cells before or between the non-blank ones included.
C22_CellAtOwnPosition ==
    MainDone
    => /\ (InA.type = "structured" /\ Len(req.fileA.sent.sheet) > 0
             => CellsAtOwnPosition(req.fileA.sent.sheet, InA))
       /\ (InB.type = "structured" /\ Len(req.fileB.sent.sheet) > 0
             => CellsAtOwnPosition(req.fileB.sent.sheet, InB))

\* the part of C22 that holds: header rows without a blank cell before a
\* non-blank one
C22_NoBlankBeforePart ==
    (MainDone /\ InA.type = "structured" /\ Len(req.fileA.sent.sheet) > 0
       /\ ~BlankBeforeColumn(req.fileA.sent.sheet))
    => CellsAtOwnPosition(req.fileA.sent.sheet, InA)

\* a column name as ingestion has to give it: not blank, trimmed
CleanName(h) == h # <<>> /\ Trim(h) = h

\* the headers of an ingested table are clean and its records have no key
\* outside them
CleanHeaders(content) ==
    /\ \A h \in Range(content.headers) : CleanName(h)
    /\ \A i \in DOMAIN content.data :
          DOMAIN content.data[i] \subseteq Range(content.headers)

\* the same for the ingestion of the handler without header negotiation,
\* whose column names are the comparison key and the keys of the records
LegacyCleanHeaders(content) ==
    /\ content.comparisonKey.t \notin {"null", "undefined"}
          => /\ content.comparisonKey.t = "string"
             /\ CleanName(content.comparisonKey.s)
    /\ \A i \in DOMAIN content.data :
          \A k \in DOMAIN content.data[i] : CleanName(k)

\* C23: for every structured input the headers ingestion produces have no
\* empty or whitespace-only entry, every header is trimmed, and the keys of
\* every ingested record are among those headers, in both variants of
\* readFileContent.
C23_CleanHeaders ==
    /\ MainDone
         => /\ (InA.type = "structured" => CleanHeaders(InA))
            /\ (InB.type = "structured" => CleanHeaders(InB))
    /\ LegacyDone
         => /\ (LegacyInA.type = "structured" => LegacyCleanHeaders(LegacyInA))
            /\ (LegacyInB.type = "structured" => LegacyCleanHeaders(LegacyInB))

\* the part of C23 that holds: readFileContent of the server with
\* /get-headers
C23_MainPart ==
    (pc = "done" /\ served \in {"main", "headers"})
    => /\ (InA.type = "structured" => CleanHeaders(InA))
       /\ (InB.type = "structured" => CleanHeaders(InB))

\* the answer names a file in the field
Names(answer, field) == field \in DOMAIN answer /\ answer[field] # NoFile

\* the file an answer names in the field exists in dir and holds the
\* partition
NamedFileHolds(answer, field, dir, partition, dataType) ==
    Names(answer, field)
    => /\ answer[field] \in DOMAIN dir
       /\ HoldsRecords(dir[answer[field]], partition, dataType)

\* what a successful answer says about the two artifacts, checked against
\* the partitions the handler built and the directory as the handler left it
ArtifactsAsAnswered(answer, dir, found, missing, dataType) ==
    /\ Names(answer, "matchedCsvFilename") <=> answer.foundCount > 0
    /\ Names(answer, "missingCsvFilename") <=> answer.missingCount > 0
    /\ NamedFileHolds(answer, "matchedCsvFilename", dir, found, dataType)
    /\ NamedFileHolds(answer, "missingCsvFilename", dir, missing, dataType)

\* the type readFileContent gives the file of a request
TypeRead(f) ==
    IF isStructured(ToLowerCase(f.originalext)) THEN "structured"
    ELSE "plain_text"

\* C24: when a /cross-check handler sends a successful answer,
\* matchedCsvFilename is a file name exactly if foundCount > 0 and
\* missingCsvFilename is one exactly if missingCount > 0, and at that moment
\* every file named exists in the artifact directory and holds exactly the
\* records of its partition; for the observed request and for the second
\* request, whatever the other one left in the directory.
C24_NamedArtifactsHold ==
    [][/\ (pc = "uploaded" /\ pc' = "done" /\ resp'.success
             /\ served' \in {"main", "legacy"})
          => ArtifactsAsAnswered(resp', artifacts', foundInFile2',
                                 missingInFile2', fileAContent'.type)
       /\ (rival.pc = "uploaded" /\ rival'.pc = "done" /\ rival'.resp.success)
          => ArtifactsAsAnswered(rival'.resp, artifacts', rival'.foundInFile2,
                                 rival'.missingInFile2,
                                 TypeRead(rival.req.fileA))]_vars

\* the observed request was answered with one matched record, a matched
\* file and no missing file, right after the second request wrote its
\* artifact in the same millisecond
C24_Witness ==
    /\ MainDone /\ resp.success
    /\ resp.foundCount = 1 /\ resp.missingCount = 0
    /\ resp.matchedCsvFilename # NoFile
    /\ resp.missingCsvFilename = NoFile
    /\ resp.matchedCsvFilename \in DOMAIN artifacts
    /\ HoldsRecords(artifacts[resp.matchedCsvFilename], foundInFile2, InA.type)
    /\ rival.pc = "done" /\ rival.resp.success
    /\ rival.resp.missingCount = 1
    /\ rival.resp.missingCsvFilename.ts = resp.matchedCsvFilename.ts
    /\ rival.resp.missingCsvFilename \in DOMAIN artifacts

\* C25: every /get-headers and /cross-check request is answered exactly
\* once, with a success or an error, in every interleaving with another
\* request and on every failure path: a handler that has run to its end has
\* sent its answer, and deleting the uploads again in the error handler
\* never keeps the error answer from being sent.
C25_EveryHandlerAnswers ==
    /\ pc \in {"done", "unanswered"} => (pc = "done" /\ resp # NoResp)
    /\ rival.pc \in {"done", "unanswered"}
          => (rival.pc = "done" /\ rival.resp # NoResp)

\* the part of C25 that holds: a handler that finds the uploads of its
\* request in place answers, on the failure paths too
C25_UploadsInPlacePart ==
    [][(/\ pc = "uploaded"
        /\ pc' # "uploaded"
        /\ PathsOf(req) \subseteq DOMAIN uploads)
       => (pc' = "done" /\ resp' # NoResp)]_vars

\* C26: the dropdown and the cross-check button always reflect the files
\* chosen now: an answer of /get-headers for a choice of files that the user
\* has changed or cleared since never fills the dropdown or enables the
\* button, so when an answer has been shown, the button is enabled and no
\* answer is on its way, both files are chosen.
C26_ReflectsSelection ==
    /\ page.event = "populate" => page.shownFor = <<page.file1, page.file2>>
    /\ (page.event = "populate" /\ ~page.crossCheckDisabled /\ inflight = {})
          => (IsSent(page.file1) /\ IsSent(page.file2))

\* the part of C26 that holds: right after a file input changed, the
\* dropdown holds a placeholder only and both controls are disabled
C26_ChangeResetsPart ==
    page.event = "change"
    => /\ page.selectDisabled
       /\ page.crossCheckDisabled
       /\ Len(page.options) = 1
       /\ page.options[1].value = <<>>

====
